---- MODULE Spec2Model ----
(***************************************************************************)
(* slackdump: the Slack client (src/slackdump/parser.py), its filters      *)
(* (src/slackdump/filters.py) and the command-line driver                  *)
(* (src/slackdump/cli.py) as one sequential state machine.  The program    *)
(* blocks at every HTTP request, at every rate-limit sleep and at the      *)
(* file system; the environment (server, user, file system) chooses what   *)
(* comes back there, and the program's reaction is deterministic.          *)
(***************************************************************************)
EXTENDS Integers, Sequences, FiniteSets, TLC

(* ----------------------------------------------------------------- bounds *)
\* most messages the server puts in one page
MaxBatch == 2
\* most successful history pages the server serves in one fetch
MaxPages == 2
\* most 429 responses the server gives in one run
Max429 == 2
\* largest positive --limit / limit argument explored
MaxLimit == 3
\* most messages handed to filter_messages by a direct caller
MaxMsgs == 3
\* most filters a direct caller constructs
MaxFilters == 2

(* ------------------------------------------------------ program constants *)
\* parser.py:131  min(1000, limit - fetched_count) ... else 1000
PageSize == 1000
\* parser.py:91   response.headers.get("Retry-After", 60)
DefaultRetryAfter == 60

(* ---------------------------------------------------------- Python values *)
\* Optional values: None, or a value wrapped in a 1-tuple
None == <<>>
Some(x) == <<x>>

\* "is not None" in place of truthiness: 0 counts as a limit
TruthyIntNotNone(o) == o # None

\* truthiness of an Optional[int]: None and 0 are falsy
TruthyInt(o) == o # None /\ o[1] # 0
\* truthiness of an Optional[str]: None and "" are falsy
TruthyStr(o) == o # None /\ o[1] # ""
\* truthiness of an Optional[bool]
TruthyBool(o) == o # None /\ o[1] = TRUE

Min(a, b) == IF a <= b THEN a ELSE b

\* str.startswith on strings held as sequences of characters
StartsWith(s, p) == Len(s) >= Len(p) /\ SubSeq(s, 1, Len(p)) = p

\* int(str) on the header strings the server sends here; None is ValueError
ParseInt(s) ==
  CASE s = "5" -> Some(5)
    [] s = "-1" -> Some(-1)
    [] OTHER -> None

(* ------------------------------------------------------------ input sets *)
TokenPrefix == <<"x", "o", "x", "b", "-">>
ChannelPrefix == <<"C">>
Tokens == { <<"x", "o", "x", "b", "-", "1">>,
            <<"x", "o", "x", "p", "-", "1">>,
            <<"x", "o", "x", "b">> }
Channels == { <<"C", "1">>, <<"D", "1">> }
\* limits a caller gives: none, negative, 0, small ones, one above the page size
Limits == {None} \cup { Some(n) : n \in -1..MaxLimit } \cup { Some(PageSize + 1) }

\* Retry-After header values: absent, integers, a negative one, a non-integer
RetryAfterValues == { None, Some("5"), Some("-1"), Some("abc") }
ErrorCodes == { None, Some("channel_not_found"), Some("invalid_auth"),
                Some("ratelimited") }
Statuses == { 200, 429, 404, 500 }
\* how many messages a page may hold: none, one, or as many as the bound allows
BatchSizes == { 0, 1, MaxBatch }

NoResp == [kind |-> "none", status |-> 0, retry_after |-> None, ok |-> None,
           error |-> None, n |-> 0, next_cursor |-> None]

\* a transport failure (requests.exceptions.RequestException) of session.get
TransportFailure == [NoResp EXCEPT !.kind = "RequestException"]
\* Ctrl-C while session.get blocks
Interrupted == [NoResp EXCEPT !.kind = "KeyboardInterrupt"]
HttpResp(st, ra, ok, err, n, cur) ==
  [kind |-> "response", status |-> st, retry_after |-> ra, ok |-> ok,
   error |-> err, n |-> n, next_cursor |-> cur]

\* the cursor token the server hands out with its k-th page
Token(k) == IF k = 1 THEN "c1" ELSE IF k = 2 THEN "c2" ELSE "c3"

(* ---------------------------------------------------------------- state *)
VARIABLES
  mode,          \* "cli": main() runs; "lib": the caller uses the client directly
  args,          \* the command line / the caller's arguments
  pc,            \* where the program is
  req,           \* the request _make_request is working on
  reqLog,        \* every session.get issued, in order
  respLog,       \* what each session.get gave (respLog[i] answers reqLog[i])
  sleepLog,      \* every time.sleep called, in order (seconds)
  constructed,   \* SlackMessageParser.__init__ returned
  messages,      \* get_channel_messages: messages
  cursor,        \* get_channel_messages: cursor
  fetched_count, \* get_channel_messages: fetched_count
  delivered,     \* ids of the messages of the successful history pages, in order
  pages,         \* successful history pages received
  returned,      \* what get_channel_messages returned (None: nothing yet)
  raised,        \* the exception that left the client (None: none)
  exitCode,      \* the process exit code (None: running)
  report,        \* the message class main printed for an error
  outLog,        \* export_messages / print_preview calls, in order
  filters,       \* the filter objects constructed so far, in order
  filtered       \* what filter_messages gave / the messages to show (None: not yet)

vars == <<mode, args, pc, req, reqLog, respLog, sleepLog, constructed,
          messages, cursor, fetched_count, delivered, pages, returned, raised,
          exitCode, report, outLog, filters, filtered>>

netVars == <<req, reqLog, respLog, sleepLog>>

\* the response session.get gave last
lastResp == IF respLog = <<>> THEN NoResp ELSE respLog[Len(respLog)]
\* 429 responses received so far
n429 == Cardinality({ i \in DOMAIN respLog : respLog[i].status = 429 })
fetchVars == <<messages, cursor, fetched_count, delivered, pages, returned>>
cliVars == <<exitCode, report, outLog>>
pipeVars == <<filters, filtered>>

(* ------------------------------------------------------------ exceptions *)
Exc(type, what, code) == [type |-> type, what |-> what, code |-> code]
\* parser.py:67   "Invalid Slack token. Please check your token format (xoxb-...)"
InvalidTokenError == Exc("ValueError", "invalid_token", None)
\* parser.py:102  "Channel not found. Please check the channel ID format (C...)"
ChannelNotFoundError == Exc("ValueError", "channel_id_format", None)
\* parser.py:107  "Invalid authentication. Please check your token."
InvalidAuthError == Exc("ValueError", "credentials", None)
\* parser.py:111  f"Slack API error: {error_msg}"
SlackApiError(code) == Exc("ValueError", "slack_api_error", Some(code))
\* parser.py:116  ConnectionError(f"Network error: {e}. ...")
NetworkError == Exc("ConnectionError", "network", None)
\* parser.py:91   int("abc")
IntParseError == Exc("ValueError", "int_literal", None)
\* parser.py:93   time.sleep(-1)
SleepLengthError == Exc("ValueError", "sleep_length", None)
KeyboardInterrupt == Exc("KeyboardInterrupt", "interrupt", None)
\* parser.py:237  PermissionError("Permission denied writing to ...")
PermissionDeniedError == Exc("PermissionError", "permission_denied", None)
\* parser.py:242  IOError(f"Error writing file: {e}"), e the exception caught
WriteError(cause) == Exc("IOError", "error_writing_file", Some(cause))
\* parser.py:232  ValueError(f"Unsupported format: {format}. Use 'json' or 'csv'")
UnsupportedFormatError == Exc("ValueError", "unsupported_format", None)

\* "except Exception" catches everything but KeyboardInterrupt and SystemExit
IsException(e) == e.type # "KeyboardInterrupt"

(* ------------------------------------------------------- the HTTP client *)
AuthRequest ==
  [endpoint |-> "auth.test", channel |-> None, limit |-> None, cursor |-> None]

\* the params without the page-size cap: "limit - fetched_count if limit else 1000"
HistoryRequestNoCap(channel_id, limit, fetched, cur) ==
  [endpoint |-> "conversations.history",
   channel |-> Some(channel_id),
   limit |-> Some(IF TruthyInt(limit) THEN limit[1] - fetched ELSE PageSize),
   cursor |-> IF TruthyStr(cur) THEN cur ELSE None]

\* the params without the cursor: every request asks for the first page
HistoryRequestDropsCursor(channel_id, limit, fetched, cur) ==
  [endpoint |-> "conversations.history",
   channel |-> Some(channel_id),
   limit |-> Some(IF TruthyInt(limit) THEN Min(PageSize, limit[1] - fetched)
                  ELSE PageSize),
   cursor |-> None]

\* get_channel_messages: params of the next request
HistoryRequest(channel_id, limit, fetched, cur) ==
  [endpoint |-> "conversations.history",
   channel |-> Some(channel_id),
   limit |-> Some(IF TruthyInt(limit) THEN Min(PageSize, limit[1] - fetched)
                  ELSE PageSize),
   cursor |-> IF TruthyStr(cur) THEN cur ELSE None]

Sleep(secs) == [t |-> "sleep", secs |-> secs, exc |-> None]
RaiseExc(e) == [t |-> "raise", secs |-> 0, exc |-> Some(e)]
ReturnData == [t |-> "return", secs |-> 0, exc |-> None]

\* the error a body with a falsy "ok" is mapped to
ApiErrorFor(resp) ==
  LET error_msg == IF resp.error = None THEN "Unknown error" ELSE resp.error[1]
  IN  IF error_msg = "channel_not_found" THEN ChannelNotFoundError
      ELSE IF error_msg = "invalid_auth" THEN InvalidAuthError
      ELSE SlackApiError(error_msg)

\* the 429 branch that falls back to the default wait on an unreadable header
RateLimitStepDefaultsOnBadHeader(resp) ==
  LET retry_after == IF resp.retry_after = None THEN Some(DefaultRetryAfter)
                     ELSE ParseInt(resp.retry_after[1])
  IN  IF retry_after = None THEN Sleep(DefaultRetryAfter)
      ELSE IF retry_after[1] < 0 THEN RaiseExc(SleepLengthError)
      ELSE Sleep(retry_after[1])

\* the 429 branch: parse Retry-After, then time.sleep
RateLimitStep(resp) ==
  LET retry_after == IF resp.retry_after = None THEN Some(DefaultRetryAfter)
                     ELSE ParseInt(resp.retry_after[1])
  IN  IF retry_after = None THEN RaiseExc(IntParseError)
      ELSE IF retry_after[1] < 0 THEN RaiseExc(SleepLengthError)
      ELSE Sleep(retry_after[1])

\* _make_request that also waits and retries on a 5xx status
HttpStepRetriesServerError(resp) ==
  IF resp.status = 429 THEN RateLimitStep(resp)
  ELSE IF resp.status >= 500 THEN Sleep(DefaultRetryAfter)
  ELSE IF resp.status >= 400 THEN RaiseExc(NetworkError)
  ELSE IF ~TruthyBool(resp.ok) THEN RaiseExc(ApiErrorFor(resp))
  ELSE ReturnData

\* _make_request that reads the body before raise_for_status
HttpStepBodyFirst(resp) ==
  IF resp.status = 429 THEN RateLimitStep(resp)
  ELSE IF resp.ok = Some(FALSE) THEN RaiseExc(ApiErrorFor(resp))
  ELSE IF resp.status >= 400 THEN RaiseExc(NetworkError)
  ELSE IF ~TruthyBool(resp.ok) THEN RaiseExc(ApiErrorFor(resp))
  ELSE ReturnData

\* _make_request on an HTTP response: 429, raise_for_status, the body's "ok"
HttpStep(resp) ==
  IF resp.status = 429 THEN RateLimitStep(resp)
  ELSE IF resp.status >= 400 THEN RaiseExc(NetworkError)
  ELSE IF ~TruthyBool(resp.ok) THEN RaiseExc(ApiErrorFor(resp))
  ELSE ReturnData

\* _make_request that treats a transport failure like a rate limit: wait, retry
MakeRequestStepRetriesFailure(resp) ==
  IF resp.kind = "KeyboardInterrupt" THEN RaiseExc(KeyboardInterrupt)
  ELSE IF resp.kind = "RequestException" THEN Sleep(DefaultRetryAfter)
  ELSE HttpStep(resp)

\* one pass of the "while True" of _make_request over what session.get gave
MakeRequestStep(resp) ==
  IF resp.kind = "KeyboardInterrupt" THEN RaiseExc(KeyboardInterrupt)
  ELSE IF resp.kind = "RequestException" THEN RaiseExc(NetworkError)
  ELSE HttpStep(resp)

\* _verify_token that fails open: "except Exception: return True"
VerifyTokenFailsOpen(out, resp) ==
  IF out.t = "return" THEN TruthyBool(resp.ok) ELSE IsException(out.exc[1])

\* _verify_token after the prefix check: bool(response.get("ok", False)), or
\* False when _make_request raised an Exception
VerifyToken(out, resp) ==
  IF out.t = "return" THEN TruthyBool(resp.ok) ELSE FALSE

\* what leaves __init__ when _make_request raised e inside _verify_token:
\* "except Exception: return False" and then the ValueError of line 67
ConstructorError(e) == IF IsException(e) THEN InvalidTokenError ELSE e

\* the prefix test without the bot part: startswith("xox")
TokenHasPrefixLoose(token) == StartsWith(token, <<"x", "o", "x">>)

\* parser.py:73  self.token.startswith("xoxb-")
TokenHasPrefix(token) == StartsWith(token, <<"x", "o", "x", "b", "-">>)

\* the channel's i-th message as the server sends it: user, ts, text
UserOf(i) == IF i % 2 = 1 THEN "U1" ELSE "U2"
TsOf(i) == 100 * i
TextOf(i) == IF i % 3 = 0 THEN "Error" ELSE "hello"

\* the record the client builds from the i-th message of the channel
SlackMessage(i, channel_id) ==
  [id |-> i, channel |-> channel_id, user |-> UserOf(i), timestamp |-> TsOf(i),
   text |-> TextOf(i)]

\* ids a..b as a sequence
Ids(a, b) == [k \in 1..(b - a + 1) |-> a + k - 1]

\* messages[:limit] that takes a negative limit for "nothing"
SliceNegativeIsEmpty(s, limit) ==
  IF limit >= 0 THEN SubSeq(s, 1, Min(limit, Len(s))) ELSE <<>>

\* messages[:limit] for any integer limit
Slice(s, limit) ==
  IF limit >= 0 THEN SubSeq(s, 1, Min(limit, Len(s)))
  ELSE SubSeq(s, 1, IF Len(s) + limit > 0 THEN Len(s) + limit ELSE 0)

(* ----------------------------------------------------------- the driver *)
\* validate_inputs with the two checks in the other order
validate_inputsChannelFirst(a) ==
  IF ~StartsWith(a.channel, ChannelPrefix) THEN "Invalid channel format"
  ELSE IF ~StartsWith(a.token, TokenPrefix) THEN "Invalid token format"
  ELSE "ok"

\* cli.validate_inputs: "ok", or what it prints before sys.exit(1)
validate_inputs(a) ==
  IF ~StartsWith(a.token, TokenPrefix) THEN "Invalid token format"
  ELSE IF ~StartsWith(a.channel, ChannelPrefix) THEN "Invalid channel format"
  ELSE "ok"

\* main that exits with the shell's code for SIGINT on KeyboardInterrupt
MainExitCodeSigint(e) ==
  IF e.type = "KeyboardInterrupt" THEN 130 ELSE 1

\* main's handlers: the exit code for an exception out of process_messages
MainExitCode(e) ==
  IF e.type = "ValueError" THEN 1
  ELSE IF e.type = "ConnectionError" THEN 1
  ELSE IF e.type = "KeyboardInterrupt" THEN 1
  ELSE 1

MainReport(e) ==
  IF e.type = "ValueError" THEN "Configuration Error"
  ELSE IF e.type = "ConnectionError" THEN "Network Error"
  ELSE IF e.type = "KeyboardInterrupt" THEN "cancelled"
  ELSE "Unexpected Error"

(* ----------------------------------------------------------- filters *)
\* cli.parse_datetime on the date strings used here; None is ValueError
parse_datetime(date_str) ==
  CASE date_str = "1970-01-01 00:02:30" -> Some(150)
    [] date_str = "1970-01-01T00:04:10" -> Some(250)
    [] OTHER -> None

\* re.compile on the patterns used here
PatternCompiles(pattern) == pattern # "("

\* regex.search(text) for the patterns and texts used here
RegexSearch(pattern, case_sensitive, text) ==
  CASE pattern = "error" -> text = "error" \/ (~case_sensitive /\ text = "Error")
    [] pattern = "Error" -> text = "Error" \/ (~case_sensitive /\ text = "error")
    [] OTHER -> FALSE

TimeRangeFilter(start_time, end_time) ==
  [kind |-> "time", start_time |-> start_time, end_time |-> end_time,
   pattern |-> "", case_sensitive |-> FALSE, user_ids |-> {}]
RegexFilter(pattern, case_sensitive) ==
  [kind |-> "regex", start_time |-> None, end_time |-> None,
   pattern |-> pattern, case_sensitive |-> case_sensitive, user_ids |-> {}]
\* AuthorFilter that keeps the first id only
AuthorFilterFirstIdOnly(user_ids) ==
  [kind |-> "author", start_time |-> None, end_time |-> None,
   pattern |-> "", case_sensitive |-> FALSE, user_ids |-> {user_ids[1]}]

AuthorFilter(user_ids) ==
  [kind |-> "author", start_time |-> None, end_time |-> None,
   pattern |-> "", case_sensitive |-> FALSE,
   user_ids |-> { user_ids[k] : k \in 1..Len(user_ids) }]

\* filters.py:28  ValueError("start_time must be before end_time")
TimeOrderError == Exc("ValueError", "start_after_end", None)
\* filters.py:55  ValueError(f"Invalid regex pattern '{pattern}': {e}")
RegexError == Exc("ValueError", "invalid_regex", None)
\* filters.py:67  ValueError("user_ids cannot be empty")
EmptyUsersError == Exc("ValueError", "empty_user_ids", None)

\* AuthorFilter.__init__ raises ValueError: "if not user_ids"
AuthorInvalid(user_ids) == user_ids = <<>>

\* TimeRangeFilter.__init__ with the comparison "start_time >= end_time"
TimeRangeInvalidNonStrict(start_time, end_time) ==
  start_time # None /\ end_time # None /\ start_time[1] >= end_time[1]

\* TimeRangeFilter.__init__ raises ValueError
TimeRangeInvalid(start_time, end_time) ==
  start_time # None /\ end_time # None /\ start_time[1] > end_time[1]

\* filter_obj(msg) with exclusive time bounds: "<=" and ">=" reject
AcceptsExclusiveBounds(f, msg) ==
  CASE f.kind = "time" ->
         /\ ~(f.start_time # None /\ msg.timestamp <= f.start_time[1])
         /\ ~(f.end_time # None /\ msg.timestamp >= f.end_time[1])
    [] f.kind = "regex" -> RegexSearch(f.pattern, f.case_sensitive, msg.text)
    [] f.kind = "author" -> msg.user \in f.user_ids

\* filter_obj(msg)
Accepts(f, msg) ==
  CASE f.kind = "time" ->
         /\ ~(f.start_time # None /\ msg.timestamp < f.start_time[1])
         /\ ~(f.end_time # None /\ msg.timestamp > f.end_time[1])
    [] f.kind = "regex" -> RegexSearch(f.pattern, f.case_sensitive, msg.text)
    [] f.kind = "author" -> msg.user \in f.user_ids

\* [msg for msg in msgs if filter_obj(msg)]
RECURSIVE Keep(_, _)
Keep(f, msgs) ==
  IF msgs = <<>> THEN <<>>
  ELSE IF Accepts(f, Head(msgs)) THEN <<Head(msgs)>> \o Keep(f, Tail(msgs))
  ELSE Keep(f, Tail(msgs))

\* filter_messages that applies the first filter only
filter_messagesFirstOnly(msgs, filter_list) ==
  IF filter_list = <<>> THEN msgs ELSE Keep(Head(filter_list), msgs)

\* filter_messages that returns an empty list when there is no filter
RECURSIVE filter_messagesNoFilterNoMessage(_, _)
filter_messagesNoFilterNoMessage(msgs, filter_list) ==
  IF filter_list = <<>> THEN <<>>
  ELSE IF Len(filter_list) = 1 THEN Keep(Head(filter_list), msgs)
  ELSE filter_messagesNoFilterNoMessage(Keep(Head(filter_list), msgs),
                                        Tail(filter_list))

\* SlackMessageParser.filter_messages
RECURSIVE filter_messages(_, _)
filter_messages(msgs, filter_list) ==
  IF filter_list = <<>> THEN msgs
  ELSE filter_messages(Keep(Head(filter_list), msgs), Tail(filter_list))

\* cli.create_filters: the filters, or "exit" when it calls sys.exit(1)
create_filters(a) ==
  LET timeGiven == TruthyStr(a.start_time) \/ TruthyStr(a.end_time)
      start_time == IF TruthyStr(a.start_time) THEN parse_datetime(a.start_time[1])
                    ELSE None
      end_time == IF TruthyStr(a.end_time) THEN parse_datetime(a.end_time[1])
                  ELSE None
      timeBad == \/ (TruthyStr(a.start_time) /\ start_time = None)
                 \/ (TruthyStr(a.end_time) /\ end_time = None)
                 \/ TimeRangeInvalid(start_time, end_time)
      regexGiven == TruthyStr(a.regex)
      regexBad == regexGiven /\ ~PatternCompiles(a.regex[1])
      usersGiven == a.users # None /\ a.users[1] # <<>>
  IN  IF timeGiven /\ timeBad THEN [exit |-> TRUE, filters |-> <<>>]
      ELSE IF regexBad THEN [exit |-> TRUE, filters |-> <<>>]
      ELSE [exit |-> FALSE,
            filters |->
              (IF timeGiven THEN <<TimeRangeFilter(start_time, end_time)>> ELSE <<>>)
              \o (IF regexGiven THEN <<RegexFilter(a.regex[1], a.case_sensitive)>>
                  ELSE <<>>)
              \o (IF usersGiven THEN <<AuthorFilter(a.users[1])>> ELSE <<>>)]

(* --------------------------------------------------------- pagination *)
\* PageStep with the limit test off by one: "fetched_count > limit"
PageStepLimitOffByOne(msgs, fetched, limit, channel_id, resp, firstId) ==
  LET batch == [k \in 1..resp.n |-> SlackMessage(firstId + k - 1, channel_id)]
      all == msgs \o batch
      count == fetched + resp.n
  IN  IF TruthyInt(limit) /\ count > limit[1]
      THEN [messages |-> Slice(all, limit[1]), fetched_count |-> count,
            cursor_read |-> FALSE, cursor |-> None, done |-> TRUE]
      ELSE [messages |-> all, fetched_count |-> count,
            cursor_read |-> TRUE, cursor |-> resp.next_cursor,
            done |-> ~TruthyStr(resp.next_cursor)]

\* PageStep that stops only on an absent cursor: "if cursor is None: break"
PageStepStopsOnNoneOnly(msgs, fetched, limit, channel_id, resp, firstId) ==
  LET batch == [k \in 1..resp.n |-> SlackMessage(firstId + k - 1, channel_id)]
      all == msgs \o batch
      count == fetched + resp.n
  IN  IF TruthyInt(limit) /\ count >= limit[1]
      THEN [messages |-> Slice(all, limit[1]), fetched_count |-> count,
            cursor_read |-> FALSE, cursor |-> None, done |-> TRUE]
      ELSE [messages |-> all, fetched_count |-> count,
            cursor_read |-> TRUE, cursor |-> resp.next_cursor,
            done |-> resp.next_cursor = None]

\* PageStep that also stops on an empty page: "if not batch_messages: break"
PageStepStopsOnEmptyPage(msgs, fetched, limit, channel_id, resp, firstId) ==
  LET batch == [k \in 1..resp.n |-> SlackMessage(firstId + k - 1, channel_id)]
      all == msgs \o batch
      count == fetched + resp.n
  IN  IF TruthyInt(limit) /\ count >= limit[1]
      THEN [messages |-> Slice(all, limit[1]), fetched_count |-> count,
            cursor_read |-> FALSE, cursor |-> None, done |-> TRUE]
      ELSE [messages |-> all, fetched_count |-> count,
            cursor_read |-> TRUE, cursor |-> resp.next_cursor,
            done |-> ~TruthyStr(resp.next_cursor) \/ resp.n = 0]

\* get_channel_messages, lines 145-167: what one successful page does to the
\* locals.  firstId is the channel position of the page's first message.
PageStep(msgs, fetched, limit, channel_id, resp, firstId) ==
  LET batch == [k \in 1..resp.n |-> SlackMessage(firstId + k - 1, channel_id)]
      all == msgs \o batch
      count == fetched + resp.n
  IN  IF TruthyInt(limit) /\ count >= limit[1]
      THEN [messages |-> Slice(all, limit[1]), fetched_count |-> count,
            cursor_read |-> FALSE, cursor |-> None, done |-> TRUE]
      ELSE [messages |-> all, fetched_count |-> count,
            cursor_read |-> TRUE, cursor |-> resp.next_cursor,
            done |-> ~TruthyStr(resp.next_cursor)]

(* ------------------------------------------------------------ the export *)
\* str.lower on the format strings used here
Lower(format) ==
  CASE format = "JSON" -> "json"
    [] format = "CSV" -> "csv"
    [] OTHER -> format

\* os.path.dirname on the paths used here
Dirname(output_path) ==
  CASE output_path = "out/messages.json" -> "out"
    [] output_path = "out/messages.csv" -> "out"
    [] OTHER -> ""

\* the exception export_messages raises for what happened inside its second try
ExportError(wr) ==
  IF wr = "ok" THEN None
  ELSE IF wr = "PermissionError" THEN Some(PermissionDeniedError)
  ELSE IF wr = "KeyboardInterrupt" THEN Some(KeyboardInterrupt)
  ELSE Some(WriteError(wr))

\* export_messages without the "if not messages: return"
export_messagesWritesEmpty(msgs, output_path, format, mk, wr) ==
  LET made == IF Dirname(output_path) = "" THEN "OSError" ELSE mk
  IN  IF Lower(format) \in {"json", "csv"}
      THEN [mkdir |-> made, write |-> wr, exc |-> ExportError(wr)]
      ELSE [mkdir |-> made, write |-> "",
            exc |-> ExportError(UnsupportedFormatError.what)]

\* export_messages that gives up when os.makedirs fails
export_messagesMkdirFatal(msgs, output_path, format, mk, wr) ==
  IF msgs = <<>> THEN [mkdir |-> "", write |-> "", exc |-> None]
  ELSE LET made == IF Dirname(output_path) = "" THEN "OSError" ELSE mk
       IN  IF made # "ok"
           THEN [mkdir |-> made, write |-> "", exc |-> ExportError(made)]
           ELSE IF Lower(format) \in {"json", "csv"}
           THEN [mkdir |-> made, write |-> wr, exc |-> ExportError(wr)]
           ELSE [mkdir |-> made, write |-> "",
                 exc |-> ExportError(UnsupportedFormatError.what)]

\* SlackMessageParser.export_messages: what it does to the file system (mkdir,
\* write: "" when not attempted) and what it raises.  mk and wr are what
\* os.makedirs and open/write would give.
export_messages(msgs, output_path, format, mk, wr) ==
  IF msgs = <<>> THEN [mkdir |-> "", write |-> "", exc |-> None]
  ELSE LET made == IF Dirname(output_path) = "" THEN "OSError" ELSE mk
       IN  IF Lower(format) \in {"json", "csv"}
           THEN [mkdir |-> made, write |-> wr, exc |-> ExportError(wr)]
           ELSE [mkdir |-> made, write |-> "",
                 exc |-> ExportError(UnsupportedFormatError.what)]

(* ------------------------------------------------------ the environment *)
\* what session.get can give for the request in flight
ServerResponses ==
  {TransportFailure, Interrupted}
  \cup { HttpResp(st, None, None, None, 0, None) : st \in Statuses \ {200, 429} }
  \cup { HttpResp(404, None, Some(FALSE), Some("channel_not_found"), 0, None),
         HttpResp(500, None, Some(TRUE), None, 0, None) }
  \cup (IF n429 < Max429
        THEN { HttpResp(429, ra, None, None, 0, None) : ra \in RetryAfterValues }
        ELSE {})
  \cup { HttpResp(200, None, Some(FALSE), err, 0, None) : err \in ErrorCodes }
  \cup { HttpResp(200, None, None, None, 0, None) }
  \cup (IF req.endpoint = "auth.test"
        THEN { HttpResp(200, None, Some(TRUE), None, 0, None) }
        ELSE IF pages < MaxPages
        THEN { HttpResp(200, None, Some(TRUE), None, n, cur) :
                 n \in BatchSizes, cur \in {None, Some(""), Some(Token(pages + 1))} }
        ELSE {})

\* outcomes of os.makedirs and of open/write in export_messages
MkdirOutcomes == {"ok", "OSError"}
WriteOutcomes ==
  {"ok", "PermissionError", "OSError", "UnicodeEncodeError", "KeyboardInterrupt"}

(* ------------------------------------------------------------- arguments *)
NoFilterArgs ==
  [start_time |-> None, end_time |-> None, regex |-> None,
   case_sensitive |-> FALSE, users |-> None]

StartOnly == [NoFilterArgs EXCEPT !.start_time = Some("1970-01-01 00:02:30")]
BadDate == [NoFilterArgs EXCEPT !.start_time = Some("invalid-date")]
StartAfterEnd ==
  [NoFilterArgs EXCEPT !.start_time = Some("1970-01-01T00:04:10"),
                       !.end_time = Some("1970-01-01 00:02:30")]
RegexOnly == [NoFilterArgs EXCEPT !.regex = Some("error")]
BadRegex == [NoFilterArgs EXCEPT !.regex = Some("(")]
UsersOnly == [NoFilterArgs EXCEPT !.users = Some(<<"U1">>)]

NoOutput == [output |-> None, format |-> "json"]
JsonOutput == [output |-> Some("out/messages.json"), format |-> "json"]
CsvOutput == [output |-> Some("out/messages.csv"), format |-> "csv"]

\* the --output/--format and filter flags of the command lines explored
CliFlags ==
  { <<NoOutput, NoFilterArgs>>, <<JsonOutput, NoFilterArgs>>,
    <<CsvOutput, NoFilterArgs>>, <<NoOutput, StartOnly>>, <<JsonOutput, BadDate>>,
    <<NoOutput, StartAfterEnd>>, <<JsonOutput, RegexOnly>>, <<NoOutput, BadRegex>>,
    <<CsvOutput, UsersOnly>> }

CliLimits == { None, Some(1) }

Args(cmdline, token, channel, limit, out, f) ==
  [cmdline |-> cmdline, token |-> token, channel |-> channel, limit |-> limit,
   output |-> out.output, format |-> out.format,
   start_time |-> f.start_time, end_time |-> f.end_time, regex |-> f.regex,
   case_sensitive |-> f.case_sensitive, users |-> f.users]

LibArgs ==
  { Args("call", t, c, l, NoOutput, NoFilterArgs) :
      t \in Tokens, c \in Channels, l \in Limits }

CliArgs ==
  { Args(cl, t, c, l, fl[1], fl[2]) :
      cl \in {"ok", "usage_error", "version"}, t \in Tokens, c \in Channels,
      l \in CliLimits, fl \in CliFlags }

\* constructor calls a direct caller makes: TimeRangeFilter(lo, hi),
\* RegexFilter(pattern, case_sensitive), AuthorFilter(ids)
TimeBounds == { None, Some(150), Some(200) }
TimeCall(lo, hi) ==
  [kind |-> "time", start_time |-> lo, end_time |-> hi, pattern |-> "",
   case_sensitive |-> FALSE, user_ids |-> <<>>]
RegexCall(pattern, case_sensitive) ==
  [kind |-> "regex", start_time |-> None, end_time |-> None, pattern |-> pattern,
   case_sensitive |-> case_sensitive, user_ids |-> <<>>]
AuthorCall(user_ids) ==
  [kind |-> "author", start_time |-> None, end_time |-> None, pattern |-> "",
   case_sensitive |-> FALSE, user_ids |-> user_ids]

FilterCalls ==
  { TimeCall(lo, hi) : lo \in TimeBounds, hi \in TimeBounds }
  \cup { RegexCall("error", FALSE), RegexCall("error", TRUE), RegexCall("(", FALSE) }
  \cup { AuthorCall(ids) : ids \in { <<>>, <<"U1">>, <<"U1", "U2">>, <<"U2", "U1">>,
                                     <<"U2", "U2">> } }

\* a direct caller of the filters and the exporter: count messages, these calls
PipelineArgs ==
  [count : 0..MaxMsgs,
   calls : UNION { [1..k -> FilterCalls] : k \in 0..MaxFilters }]

\* the format and path arguments a direct caller gives export_messages
ExportFormats == { "json", "csv", "JSON", "xml" }
ExportPaths == { "out/messages.json", "messages.json" }

\* the exception a filter constructor raises for this call (None: it returns)
FilterInitError(call) ==
  CASE call.kind = "time" ->
         IF TimeRangeInvalid(call.start_time, call.end_time)
         THEN Some(TimeOrderError) ELSE None
    [] call.kind = "regex" ->
         IF ~PatternCompiles(call.pattern) THEN Some(RegexError) ELSE None
    [] call.kind = "author" ->
         IF AuthorInvalid(call.user_ids) THEN Some(EmptyUsersError) ELSE None

\* the filter object the constructor returns for this call
NewFilter(call) ==
  CASE call.kind = "time" -> TimeRangeFilter(call.start_time, call.end_time)
    [] call.kind = "regex" -> RegexFilter(call.pattern, call.case_sensitive)
    [] call.kind = "author" -> AuthorFilter(call.user_ids)

(* ------------------------------------------------------------------ Init *)
InitState ==
  /\ pc = "start"
  /\ req = AuthRequest
  /\ reqLog = <<>>
  /\ respLog = <<>>
  /\ sleepLog = <<>>
  /\ constructed = FALSE
  /\ messages = <<>>
  /\ cursor = None
  /\ fetched_count = 0
  /\ delivered = <<>>
  /\ pages = 0
  /\ returned = None
  /\ raised = None
  /\ exitCode = None
  /\ report = "none"
  /\ outLog = <<>>
  /\ filters = <<>>
  /\ filtered = None

\* a run of the command-line program
Init == mode = "cli" /\ args \in CliArgs /\ InitState

\* a caller that uses SlackMessageParser directly
InitClient == mode = "lib" /\ args \in LibArgs /\ InitState

\* a caller with a well-formed token that fetches one channel: without a limit,
\* with the smallest and with the largest small limit
FetchArgs ==
  { Args("call", <<"x", "o", "x", "b", "-", "1">>, <<"C", "1">>, l, NoOutput,
         NoFilterArgs) : l \in { None, Some(1), Some(MaxLimit) } }
InitFetch == mode = "lib" /\ args \in FetchArgs /\ InitState

\* a caller that uses the filters, filter_messages and export_messages directly
InitPipeline == mode = "pipeline" /\ args \in PipelineArgs /\ InitState

\* the messages the direct caller holds
InputMessages == [i \in 1..args.count |-> SlackMessage(i, <<"C", "1">>)]

(* --------------------------------------------------------------- helpers *)
\* session.get(url, params=params, timeout=30)
Send(r) ==
  /\ req' = r
  /\ reqLog' = Append(reqLog, r)
  /\ pc' = "request"

\* sys.exit(code)
Exit(code, rep) ==
  /\ pc' = "exit"
  /\ exitCode' = Some(code)
  /\ report' = rep

\* main that treats an error after the first messages as a success
PropagateSalvagesPartial(e) ==
  /\ raised' = Some(e)
  /\ IF mode = "cli"
     THEN Exit(IF messages # <<>> THEN 0 ELSE MainExitCode(e), MainReport(e))
     ELSE pc' = "raised" /\ UNCHANGED <<exitCode, report>>

\* an exception leaves the client: main's handlers catch it, or the caller gets it
Propagate(e) ==
  /\ raised' = Some(e)
  /\ IF mode = "cli"
     THEN Exit(MainExitCode(e), MainReport(e))
     ELSE pc' = "raised" /\ UNCHANGED <<exitCode, report>>

\* SlackMessageParser.__init__ up to the auth.test request
Construct ==
  IF ~TokenHasPrefix(args.token)
  THEN /\ Propagate(InvalidTokenError)
       /\ UNCHANGED <<req, reqLog>>
  ELSE /\ Send(AuthRequest)
       /\ UNCHANGED <<raised, exitCode, report>>

\* get_channel_messages up to its first request
StartFetch ==
  /\ messages' = <<>>
  /\ cursor' = None
  /\ fetched_count' = 0
  /\ Send(HistoryRequest(args.channel, args.limit, 0, None))

\* an exception leaves _make_request: through _verify_token and __init__ for
\* auth.test, through get_channel_messages (which re-raises) for the history
ClientRaise(e) ==
  IF req.endpoint = "auth.test" THEN Propagate(ConstructorError(e))
  ELSE Propagate(e)

(* --------------------------------------------------------------- actions *)
\* cli.main: parse_args, validate_inputs, then process_messages up to the
\* client's first request
Main ==
  /\ mode = "cli" /\ pc = "start"
  /\ IF args.cmdline = "usage_error"
     THEN Exit(2, "usage") /\ UNCHANGED <<req, reqLog, raised>>
     ELSE IF args.cmdline = "version"
     THEN Exit(0, "version") /\ UNCHANGED <<req, reqLog, raised>>
     ELSE IF validate_inputs(args) # "ok"
     THEN Exit(1, validate_inputs(args)) /\ UNCHANGED <<req, reqLog, raised>>
     ELSE Construct
  /\ UNCHANGED <<mode, args, respLog, sleepLog, constructed, fetchVars, outLog,
                 pipeVars>>

\* the caller constructs SlackMessageParser(token)
LibConstruct ==
  /\ mode = "lib" /\ pc = "start"
  /\ Construct
  /\ UNCHANGED <<mode, args, respLog, sleepLog, constructed, fetchVars, outLog,
                 pipeVars>>

\* the caller calls get_channel_messages(channel, limit) on the constructed client
LibFetch ==
  /\ mode = "lib" /\ pc = "constructed"
  /\ StartFetch
  /\ UNCHANGED <<mode, args, respLog, sleepLog, constructed, delivered,
                 pages, returned, raised, cliVars, pipeVars>>

\* _make_request gets the answer to auth.test, inside _verify_token and __init__
AuthResponse ==
  /\ pc = "request" /\ req.endpoint = "auth.test"
  /\ \E resp \in ServerResponses :
       LET out == MakeRequestStep(resp) IN
       /\ respLog' = Append(respLog, resp)
       /\ IF out.t = "sleep"
          THEN /\ sleepLog' = Append(sleepLog, out.secs)
               /\ pc' = "sleep"
               /\ UNCHANGED <<req, reqLog, constructed, messages, cursor,
                              fetched_count, raised, exitCode, report>>
          ELSE IF VerifyToken(out, resp)
          THEN /\ constructed' = TRUE
               /\ IF mode = "cli"
                  THEN StartFetch
                  ELSE /\ pc' = "constructed"
                       /\ UNCHANGED <<req, reqLog, messages, cursor, fetched_count>>
               /\ UNCHANGED <<sleepLog, raised, exitCode, report>>
          ELSE /\ Propagate(IF out.t = "raise" THEN ConstructorError(out.exc[1])
                            ELSE InvalidTokenError)
               /\ UNCHANGED <<req, reqLog, sleepLog, constructed, messages, cursor,
                              fetched_count>>
  /\ UNCHANGED <<mode, args, delivered, pages, returned, outLog, pipeVars>>

\* _make_request gets the answer to conversations.history, inside
\* get_channel_messages
HistoryResponse ==
  /\ pc = "request" /\ req.endpoint = "conversations.history"
  /\ \E resp \in ServerResponses :
       LET out == MakeRequestStep(resp)
           step == PageStep(messages, fetched_count, args.limit, args.channel,
                            resp, Len(delivered) + 1)
       IN
       /\ respLog' = Append(respLog, resp)
       /\ IF out.t = "sleep"
          THEN /\ sleepLog' = Append(sleepLog, out.secs)
               /\ pc' = "sleep"
               /\ UNCHANGED <<req, reqLog, fetchVars, raised, exitCode, report>>
          ELSE IF out.t = "raise"
          THEN /\ Propagate(out.exc[1])
               /\ UNCHANGED <<req, reqLog, sleepLog, fetchVars>>
          ELSE /\ messages' = step.messages
               /\ fetched_count' = step.fetched_count
               /\ cursor' = IF step.cursor_read THEN step.cursor ELSE cursor
               /\ delivered' = delivered \o Ids(Len(delivered) + 1,
                                                Len(delivered) + resp.n)
               /\ pages' = pages + 1
               /\ IF step.done
                  THEN /\ returned' = Some(step.messages)
                       /\ pc' = IF mode = "cli" THEN "fetched" ELSE "returned"
                       /\ UNCHANGED <<req, reqLog>>
                  ELSE /\ Send(HistoryRequest(args.channel, args.limit,
                                              step.fetched_count, step.cursor))
                       /\ UNCHANGED returned
               /\ UNCHANGED <<sleepLog, raised, exitCode, report>>
  /\ UNCHANGED <<mode, args, constructed, outLog, pipeVars>>

\* time.sleep(retry_after) returns and the loop of _make_request sends again
Wake ==
  /\ pc = "sleep"
  /\ Send(req)
  /\ UNCHANGED <<mode, args, respLog, sleepLog, constructed, fetchVars,
                 raised, cliVars, pipeVars>>

\* Ctrl-C during time.sleep
SleepInterrupted ==
  /\ pc = "sleep"
  /\ ClientRaise(KeyboardInterrupt)
  /\ UNCHANGED <<mode, args, netVars, constructed, fetchVars, outLog, pipeVars>>

Preview(msgs) ==
  [op |-> "preview", msgs |-> msgs, path |-> None, format |-> "",
   mkdir |-> "", write |-> ""]
Export(msgs, path, format, mk, wr) ==
  [op |-> "export", msgs |-> msgs, path |-> path, format |-> format,
   mkdir |-> mk, write |-> wr]

\* process_messages after get_channel_messages returned: filters, then export
\* or preview; main returns
CliAfterFetch ==
  /\ mode = "cli" /\ pc = "fetched"
  /\ \E mk \in MkdirOutcomes, wr \in WriteOutcomes :
       LET fetched == returned[1]
           made == create_filters(args)
           shown == IF made.filters # <<>>
                    THEN filter_messages(fetched, made.filters) ELSE fetched
           out == export_messages(shown, args.output[1], args.format, mk, wr)
       IN
       IF fetched = <<>>
       THEN Exit(0, "No messages found") /\ UNCHANGED <<outLog, raised, pipeVars>>
       ELSE IF made.exit
       THEN Exit(1, "Error") /\ UNCHANGED <<outLog, raised, pipeVars>>
       ELSE /\ filters' = made.filters
            /\ filtered' = Some(shown)
            /\ IF args.output = None
               THEN /\ outLog' = Append(outLog, Preview(shown))
                    /\ Exit(0, "none")
                    /\ UNCHANGED raised
               ELSE /\ outLog' = Append(outLog, Export(shown, args.output, args.format,
                                                      out.mkdir, out.write))
                    /\ IF out.exc = None
                       THEN /\ Exit(0, IF shown = <<>> THEN "No messages to export"
                                       ELSE "none")
                            /\ UNCHANGED raised
                       ELSE IF out.exc[1].type \in {"PermissionError", "IOError"}
                       THEN Exit(1, "Error") /\ raised' = out.exc
                       ELSE Propagate(out.exc[1])
  /\ UNCHANGED <<mode, args, netVars, constructed, fetchVars>>

\* the caller constructs its next filter
LibNewFilter ==
  /\ mode = "pipeline" /\ pc = "start"
  /\ Len(filters) < Len(args.calls)
  /\ LET call == args.calls[Len(filters) + 1] IN
       IF FilterInitError(call) # None
       THEN /\ raised' = FilterInitError(call)
            /\ pc' = "raised"
            /\ UNCHANGED filters
       ELSE /\ filters' = Append(filters, NewFilter(call))
            /\ UNCHANGED <<raised, pc>>
  /\ UNCHANGED <<mode, args, netVars, constructed, fetchVars, cliVars, filtered>>

\* the caller calls filter_messages(messages, filters)
LibFilterMessages ==
  /\ mode = "pipeline" /\ pc = "start"
  /\ Len(filters) = Len(args.calls)
  /\ filtered' = Some(filter_messages(InputMessages, filters))
  /\ pc' = "filtered"
  /\ UNCHANGED <<mode, args, netVars, constructed, fetchVars, raised, cliVars,
                 filters>>

\* the caller calls export_messages(filtered, output_path, format)
LibExport ==
  /\ mode = "pipeline" /\ pc = "filtered"
  /\ \E output_path \in ExportPaths, format \in ExportFormats,
        mk \in MkdirOutcomes, wr \in WriteOutcomes :
       LET out == export_messages(filtered[1], output_path, format, mk, wr) IN
       /\ outLog' = Append(outLog, Export(filtered[1], Some(output_path), format,
                                          out.mkdir, out.write))
       /\ raised' = out.exc
       /\ pc' = IF out.exc = None THEN "exported" ELSE "raised"
  /\ UNCHANGED <<mode, args, netVars, constructed, fetchVars, exitCode, report,
                 pipeVars>>

Next ==
  \/ Main
  \/ AuthResponse
  \/ HistoryResponse
  \/ Wake
  \/ SleepInterrupted
  \/ CliAfterFetch

NextClient ==
  \/ LibConstruct
  \/ LibFetch
  \/ AuthResponse
  \/ HistoryResponse
  \/ Wake
  \/ SleepInterrupted

NextPipeline ==
  \/ LibNewFilter
  \/ LibFilterMessages
  \/ LibExport

\* the command-line program
Spec == Init /\ [][Next]_vars

\* the client used as a library
SpecClient == InitClient /\ [][NextClient]_vars

\* one fetch by a caller with a well-formed token, where every blocking call
\* comes back: session.get answers or fails within its timeout, time.sleep
\* returns
SpecFetchFair ==
  /\ InitFetch /\ [][NextClient]_vars
  /\ WF_vars(AuthResponse) /\ WF_vars(HistoryResponse) /\ WF_vars(Wake)

\* the filters and the exporter used directly
SpecPipeline == InitPipeline /\ [][NextPipeline]_vars

(* ================================================================ claims *)
\* history requests sent, and those of them answered 429
HistoryRequests == { i \in DOMAIN reqLog : reqLog[i].endpoint = "conversations.history" }
History429 == { i \in HistoryRequests \cap DOMAIN respLog : respLog[i].status = 429 }

\* the next_cursor of the last successful history page (None before the first)
lastPageCursor ==
  LET ok == { i \in HistoryRequests \cap DOMAIN respLog :
                respLog[i].status = 200 /\ TruthyBool(respLog[i].ok) }
  IN  IF ok = {} THEN None
      ELSE respLog[CHOOSE i \in ok : \A j \in ok : j <= i].next_cursor

\* the first k messages the server delivered, as the client builds them
FirstMessages(k) == [i \in 1..k |-> SlackMessage(delivered[i], args.channel)]

PositiveLimit == args.limit # None /\ args.limit[1] > 0

InHistoryRequest ==
  pc \in {"request", "sleep"} /\ req.endpoint = "conversations.history"

\* C1: for a positive limit L, as soon as the messages received reach or exceed
\* L, get_channel_messages has returned exactly the first L of them in arrival
\* order and no request is sent after the page that reached L (its cursor is
\* not followed); what is returned never holds more than L messages.
C1_LimitStopsFetch ==
  PositiveLimit =>
    /\ (Len(delivered) >= args.limit[1] =>
          /\ returned = Some(FirstMessages(args.limit[1]))
          /\ ~InHistoryRequest
          /\ Len(reqLog) = Len(respLog)
          /\ lastResp.status = 200)
    /\ (returned # None => Len(returned[1]) <= args.limit[1])

\* the limit was exceeded by a page that offered a cursor, after an earlier page
C1_Witness ==
  /\ PositiveLimit
  /\ pages >= 2
  /\ Len(delivered) > args.limit[1]
  /\ returned # None
  /\ TruthyStr(lastResp.next_cursor)

\* C2: with no limit, the fetch goes on while the last page carried a non-empty
\* cursor and stops at the first page whose cursor is absent or empty; every page
\* took exactly one request that was not answered 429; the result is all pages
\* concatenated in server order, each message carrying the requested channel.
C2_NoLimitFetchesEveryPage ==
  args.limit = None =>
    /\ (InHistoryRequest /\ pages > 0 =>
          /\ TruthyStr(cursor)
          /\ cursor = lastPageCursor
          /\ req.cursor = cursor)
    /\ (returned # None =>
          /\ ~TruthyStr(lastPageCursor)
          /\ returned[1] = FirstMessages(Len(delivered))
          /\ Len(reqLog) = Len(respLog)
          /\ Cardinality(HistoryRequests) = pages + Cardinality(History429))

\* three pages were concatenated, the last one with an empty cursor
C2_Witness ==
  /\ args.limit = None
  /\ returned # None
  /\ pages >= 2
  /\ Len(returned[1]) >= 3
  /\ lastPageCursor = Some("")

\* k-th 429 response: the position among the 429 responses of respLog[i]
Rank429(i) == Cardinality({ j \in 1..i : respLog[j].status = 429 })

\* "the Retry-After number of seconds (60 when the header is absent)"
RetryAfterSeconds(resp) ==
  IF resp.retry_after = None THEN Some(DefaultRetryAfter)
  ELSE ParseInt(resp.retry_after[1])

\* C3: every 429 response is followed by exactly one wait of the Retry-After
\* seconds (60 when the header is absent) and then by the identical request
\* again; there are as many waits as 429 responses; a 429 never ends the
\* request with an error.
C3_Every429WaitsThenRetries ==
  /\ Len(sleepLog) = n429
  /\ \A i \in DOMAIN respLog :
       respLog[i].status = 429 =>
         /\ Rank429(i) <= Len(sleepLog)
         /\ Some(sleepLog[Rank429(i)]) = RetryAfterSeconds(respLog[i])
         /\ (i < Len(reqLog) => reqLog[i + 1] = reqLog[i])
         /\ (i = Len(reqLog) => pc = "sleep" \/ raised = Some(KeyboardInterrupt))

\* a step in which _make_request receives a 429 response
Receives429 == Len(respLog') = Len(respLog) + 1 /\ lastResp'.status = 429

\* C4: there is no retry cap: whatever came before, a request answered 429 is
\* not ended (no return, no error): the client waits, and when the wait is over
\* it sends the same request again.
C4_RateLimitNeverEndsRequest ==
  /\ [][Receives429 => pc' = "sleep" /\ raised' = None /\ returned' = returned]_vars
  /\ [][pc = "sleep" /\ raised' = raised =>
          pc' = "request" /\ req' = req /\ reqLog' = Append(reqLog, req)]_vars

\* C5: a transport failure of a history request ends get_channel_messages with
\* the network error at once: nothing is returned, no request follows it and
\* the client does not wait.
C5_TransportFailureEndsFetch ==
  (lastResp.kind = "RequestException" /\ req.endpoint = "conversations.history") =>
    /\ raised = Some(NetworkError)
    /\ returned = None
    /\ pc \in {"raised", "exit"}
    /\ Len(reqLog) = Len(respLog)
    /\ Len(sleepLog) <= n429

\* the second page's request failed in transport
C5_Witness ==
  /\ lastResp.kind = "RequestException"
  /\ req.endpoint = "conversations.history"
  /\ pages >= 1
  /\ raised = Some(NetworkError)

\* C6: a transport failure of any request the client sends, auth.test included,
\* reaches the caller as the network error; whatever _make_request raises is
\* what the caller gets.
C6_EveryTransportFailureIsNetworkError ==
  /\ (lastResp.kind = "RequestException" => raised = Some(NetworkError))
  /\ (MakeRequestStep(lastResp).t = "raise" /\ pc \in {"raised", "exit"} /\ respLog # <<>>
        => raised # None /\ raised[1].type = MakeRequestStep(lastResp).exc[1].type)

\* C7: a 200 response to a history request whose body has a falsy "ok" ends the
\* request without retry: channel_not_found as the configuration error about
\* the channel id format, invalid_auth as the configuration error about the
\* credentials, any other code as an error that is not a configuration error
\* (not a ValueError) and carries the code.
C7_ApiErrorKinds ==
  (/\ req.endpoint = "conversations.history"
   /\ lastResp.kind = "response" /\ lastResp.status = 200
   /\ ~TruthyBool(lastResp.ok)) =>
    /\ pc \in {"raised", "exit"}
    /\ Len(reqLog) = Len(respLog)
    /\ raised # None
    /\ IF lastResp.error = Some("channel_not_found")
       THEN raised[1] = ChannelNotFoundError
       ELSE IF lastResp.error = Some("invalid_auth")
       THEN raised[1] = InvalidAuthError
       ELSE /\ raised[1].type # "ValueError"
            /\ raised[1].code =
                 (IF lastResp.error = None THEN Some("Unknown error") ELSE lastResp.error)

\* C8: constructing the client with a token that does not start with xoxb-
\* fails with the invalid-token ValueError and sends no request.
C8_BadPrefixSendsNothing ==
  (mode = "lib" /\ ~StartsWith(args.token, TokenPrefix) /\ pc # "start") =>
    /\ pc = "raised"
    /\ raised = Some(InvalidTokenError)
    /\ ~constructed
    /\ reqLog = <<>>

C8_Witness ==
  /\ mode = "lib"
  /\ args.token = <<"x", "o", "x", "p", "-", "1">>
  /\ pc = "raised"
  /\ reqLog = <<>>

\* the i-th request was auth.test and its answer was a 200 with a true "ok"
AuthSucceeded(i) ==
  /\ reqLog[i].endpoint = "auth.test"
  /\ respLog[i].kind = "response" /\ respLog[i].status = 200
  /\ TruthyBool(respLog[i].ok)

\* the i-th request was auth.test and its answer was a 200 without a true "ok"
AuthRefused(i) ==
  /\ reqLog[i].endpoint = "auth.test"
  /\ respLog[i].kind = "response" /\ respLog[i].status = 200
  /\ ~TruthyBool(respLog[i].ok)

\* C9: constructing with a well-prefixed token sends auth.test first; the
\* construction succeeds exactly when an auth.test answer has a true "ok"; an
\* answer without it fails the construction with the invalid-token ValueError;
\* no history request is sent by a client that was not constructed.
C9_ConstructionNeedsAuthOk ==
  /\ (mode = "lib" /\ StartsWith(args.token, TokenPrefix) /\ pc # "start" =>
        reqLog # <<>> /\ reqLog[1] = AuthRequest)
  /\ (constructed <=> \E i \in DOMAIN respLog : AuthSucceeded(i))
  /\ \A i \in DOMAIN respLog :
       AuthRefused(i) => ~constructed /\ raised = Some(InvalidTokenError)
  /\ \A i \in DOMAIN reqLog :
       reqLog[i].endpoint = "conversations.history" => constructed

\* auth.test was answered with ok false and the construction failed
C9_Witness ==
  /\ mode = "lib"
  /\ \E i \in DOMAIN respLog : AuthRefused(i) /\ respLog[i].ok = Some(FALSE)
  /\ raised = Some(InvalidTokenError)
  /\ pc = "raised"

\* export_messages failed to open or write the file
WriteFailed ==
  outLog # <<>> /\ outLog[Len(outLog)].write \in {"PermissionError", "OSError"}

\* the run went through: the preview was printed or the export returned
RunSucceeded ==
  pc = "exit" /\ outLog # <<>> /\ outLog[Len(outLog)].write \in {"", "ok"}

\* get_channel_messages returned an empty list
NoMessagesFound == pc = "exit" /\ returned = Some(<<>>)

\* what the claim says of the exit codes 0 and 1
ExitsZeroAndOne ==
  /\ (raised # None => exitCode = Some(1))
  /\ (WriteFailed => exitCode = Some(1))
  /\ (RunSucceeded => exitCode = Some(0))
  /\ (NoMessagesFound => exitCode = Some(0))

\* C10 as claimed: main exits 1 on every error out of the client or the
\* exporter (configuration, network, file write, interrupt, anything else),
\* exits 0 when the run succeeds or no message was fetched, and produces no
\* other exit code.
C10_ExitCodeIsZeroOrOne ==
  /\ ExitsZeroAndOne
  /\ (exitCode # None => exitCode[1] \in {0, 1})

\* C10 as amended: the same, and the one other exit code main produces is 2,
\* exactly when parse_args rejects the command line, before any request.
C10_ExitCodes ==
  /\ ExitsZeroAndOne
  /\ (exitCode # None => exitCode[1] \in {0, 1, 2})
  /\ (exitCode = Some(2) <=> pc = "exit" /\ args.cmdline = "usage_error")
  /\ (exitCode = Some(2) => reqLog = <<>>)

\* the export was refused by the file system and the run exited 1
C10_Witness ==
  /\ outLog # <<>>
  /\ outLog[Len(outLog)].write = "PermissionError"
  /\ exitCode = Some(1)

\* the command line was accepted by parse_args and by validate_inputs
CliInputsAccepted ==
  /\ mode = "cli" /\ args.cmdline = "ok"
  /\ StartsWith(args.token, TokenPrefix) /\ StartsWith(args.channel, ChannelPrefix)

\* a start/end string in none of the accepted formats, start after end, or a
\* pattern that does not compile
BadFilterArgs ==
  LET start_time == IF TruthyStr(args.start_time)
                    THEN parse_datetime(args.start_time[1]) ELSE None
      end_time == IF TruthyStr(args.end_time)
                  THEN parse_datetime(args.end_time[1]) ELSE None
  IN  \/ TruthyStr(args.start_time) /\ start_time = None
      \/ TruthyStr(args.end_time) /\ end_time = None
      \/ start_time # None /\ end_time # None /\ start_time[1] > end_time[1]
      \/ TruthyStr(args.regex) /\ ~PatternCompiles(args.regex[1])

\* C11: the filter arguments are validated before any request is sent: with a
\* bad date string, start after end or a bad pattern the run sends no request
\* and exits with code 1 whatever the channel holds.
C11_BadFilterArgsExitOneBeforeAnyRequest ==
  (CliInputsAccepted /\ BadFilterArgs /\ pc # "start") =>
    /\ reqLog = <<>>
    /\ pc = "exit"
    /\ exitCode = Some(1)

\* C12: the command-line program rejects a token that does not start with
\* xoxb-, and then a channel id that does not start with C, with exit code 1
\* before the client is constructed: no request is sent; the token is checked
\* first.
C12_CliRejectsBadTokenThenBadChannel ==
  (mode = "cli" /\ args.cmdline = "ok" /\ pc # "start") =>
    /\ (~StartsWith(args.token, TokenPrefix) =>
          /\ pc = "exit" /\ exitCode = Some(1)
          /\ report = "Invalid token format"
          /\ reqLog = <<>> /\ ~constructed)
    /\ (StartsWith(args.token, TokenPrefix) /\ ~StartsWith(args.channel, ChannelPrefix) =>
          /\ pc = "exit" /\ exitCode = Some(1)
          /\ report = "Invalid channel format"
          /\ reqLog = <<>> /\ ~constructed)

\* token and channel were both malformed and the run ended on the token
C12_Witness ==
  /\ mode = "cli" /\ args.cmdline = "ok"
  /\ ~StartsWith(args.token, TokenPrefix)
  /\ ~StartsWith(args.channel, ChannelPrefix)
  /\ pc = "exit" /\ exitCode = Some(1)
  /\ report = "Invalid token format"

(* ------------------------------------------ filters and exporter, directly *)
\* every filter of the list accepts the message
AcceptedByAll(filter_list, msg) ==
  \A k \in DOMAIN filter_list : Accepts(filter_list[k], msg)

\* the messages of msgs that every filter of the list accepts, in the order of msgs
RECURSIVE Subsequence(_, _)
Subsequence(msgs, filter_list) ==
  IF msgs = <<>> THEN <<>>
  ELSE (IF AcceptedByAll(filter_list, Head(msgs)) THEN <<Head(msgs)>> ELSE <<>>)
       \o Subsequence(Tail(msgs), filter_list)

\* the filter list in the order given by the permutation p of its indices
Permuted(filter_list, p) == [k \in DOMAIN filter_list |-> filter_list[p[k]]]

\* C13: filter_messages with any list of filters returns exactly the input
\* messages that every filter accepts, in input order, and gives the same
\* result for every permutation of the filter list.
C13_FilterMessagesIsConjunction ==
  (mode = "pipeline" /\ filtered # None) =>
    /\ filtered[1] = Subsequence(InputMessages, filters)
    /\ \A p \in Permutations(DOMAIN filters) :
         filter_messages(InputMessages, Permuted(filters, p)) = filtered[1]

\* two filters of different kinds were applied; each rejected a message the
\* other accepted, and one message survived both
C13_Witness ==
  /\ mode = "pipeline" /\ filtered # None
  /\ Len(filters) = 2
  /\ filters[1].kind # filters[2].kind
  /\ Len(InputMessages) = 3 /\ Len(filtered[1]) = 1
  /\ \E i, j \in DOMAIN InputMessages :
       /\ Accepts(filters[1], InputMessages[i]) /\ ~Accepts(filters[2], InputMessages[i])
       /\ Accepts(filters[2], InputMessages[j]) /\ ~Accepts(filters[1], InputMessages[j])

\* C14: filter_messages with an empty filter list returns its input unchanged:
\* the same messages in the same order.
C14_NoFilterReturnsInput ==
  (mode = "pipeline" /\ filtered # None /\ filters = <<>>) =>
    /\ filtered[1] = InputMessages
    /\ Len(filtered[1]) = args.count

C14_Witness ==
  /\ mode = "pipeline" /\ args.calls = <<>> /\ args.count >= 2
  /\ filtered = Some(InputMessages)

\* "lo is absent or m.time >= lo, and hi is absent or m.time <= hi"
WithinBounds(lo, hi, msg) ==
  (lo = None \/ msg.timestamp >= lo[1]) /\ (hi = None \/ msg.timestamp <= hi[1])

\* C15: a constructed TimeRangeFilter(lo, hi) accepts a message exactly when
\* its time is not before lo (if lo is given) and not after hi (if hi is
\* given): the bounds are inclusive, and a filter without bounds accepts all.
C15_TimeRangeIsInclusive ==
  mode = "pipeline" =>
    /\ \A k \in DOMAIN filters :
         filters[k].kind = "time" =>
           \A i \in DOMAIN InputMessages :
             Accepts(filters[k], InputMessages[i])
               <=> WithinBounds(args.calls[k].start_time, args.calls[k].end_time,
                                InputMessages[i])
    /\ (filtered # None /\ Len(filters) = 1 /\ filters[1].kind = "time" =>
          \A i \in DOMAIN InputMessages :
            (\E j \in DOMAIN filtered[1] : filtered[1][j] = InputMessages[i])
              <=> WithinBounds(args.calls[1].start_time, args.calls[1].end_time,
                               InputMessages[i]))

\* TimeRangeFilter(200, 200) kept the one message whose time is 200
C15_Witness ==
  /\ mode = "pipeline"
  /\ args.calls = <<TimeCall(Some(200), Some(200))>>
  /\ args.count = 3
  /\ filtered = Some(<<SlackMessage(2, <<"C", "1">>)>>)

\* the constructor call the caller is at, when it was the one that raised
FailedCall == args.calls[Len(filters) + 1]
ConstructorRaised ==
  mode = "pipeline" /\ pc = "raised" /\ outLog = <<>> /\ filtered = None

\* C16: TimeRangeFilter(lo, hi) raises the ValueError exactly when both bounds
\* are given and lo is after hi; with lo = hi or a bound absent it is
\* constructed.
C16_TimeRangeRejectsReversedBounds ==
  mode = "pipeline" =>
    /\ \A k \in DOMAIN filters :
         args.calls[k].kind = "time" =>
           /\ filters[k] = TimeRangeFilter(args.calls[k].start_time,
                                           args.calls[k].end_time)
           /\ ~(/\ args.calls[k].start_time # None /\ args.calls[k].end_time # None
                /\ args.calls[k].start_time[1] > args.calls[k].end_time[1])
    /\ (ConstructorRaised /\ FailedCall.kind = "time" =>
          /\ raised = Some(TimeOrderError)
          /\ FailedCall.start_time # None /\ FailedCall.end_time # None
          /\ FailedCall.start_time[1] > FailedCall.end_time[1])

\* TimeRangeFilter(200, 200) was constructed, then TimeRangeFilter(200, 150)
\* raised
C16_Witness ==
  /\ ConstructorRaised
  /\ args.calls = <<TimeCall(Some(200), Some(200)), TimeCall(Some(200), Some(150))>>
  /\ Len(filters) = 1
  /\ raised = Some(TimeOrderError)

\* set(ids)
IdSet(user_ids) == { user_ids[i] : i \in DOMAIN user_ids }

\* C17: a constructed AuthorFilter(ids) accepts a message exactly when its
\* author is in set(ids); AuthorFilter([]) always raises; two id lists with
\* the same elements give filters that agree on every message.
C17_AuthorFilterIsSetMembership ==
  mode = "pipeline" =>
    /\ \A k \in DOMAIN filters :
         args.calls[k].kind = "author" =>
           /\ args.calls[k].user_ids # <<>>
           /\ \A i \in DOMAIN InputMessages :
                Accepts(filters[k], InputMessages[i])
                  <=> InputMessages[i].user \in IdSet(args.calls[k].user_ids)
    /\ (ConstructorRaised /\ FailedCall.kind = "author" =>
          raised = Some(EmptyUsersError) /\ FailedCall.user_ids = <<>>)
    /\ \A j, k \in DOMAIN filters :
         (/\ args.calls[j].kind = "author" /\ args.calls[k].kind = "author"
          /\ IdSet(args.calls[j].user_ids) = IdSet(args.calls[k].user_ids)) =>
           \A i \in DOMAIN InputMessages :
             Accepts(filters[j], InputMessages[i]) <=> Accepts(filters[k], InputMessages[i])
    /\ (filtered # None /\ Len(filters) = 1 /\ filters[1].kind = "author" =>
          \A i \in DOMAIN InputMessages :
            (\E j \in DOMAIN filtered[1] : filtered[1][j] = InputMessages[i])
              <=> InputMessages[i].user \in IdSet(args.calls[1].user_ids))

\* AuthorFilter(["U1", "U2"]) and AuthorFilter(["U2", "U1"]) kept all three
\* messages
C17_Witness ==
  /\ mode = "pipeline"
  /\ args.calls = <<AuthorCall(<<"U1", "U2">>), AuthorCall(<<"U2", "U1">>)>>
  /\ args.count = 3
  /\ filtered = Some(InputMessages)

\* the last export_messages call
LastExport == outLog[Len(outLog)]
ExportCalled == mode = "pipeline" /\ outLog # <<>> /\ LastExport.op = "export"
FormatSupported(format) == Lower(format) \in {"json", "csv"}

\* C18: export_messages with an empty message list touches nothing in the
\* file system (no makedirs, no open) and returns without an error, whatever
\* the path and the format.
C18_ExportOfNothingTouchesNothing ==
  (ExportCalled /\ LastExport.msgs = <<>>) =>
    /\ LastExport.mkdir = "" /\ LastExport.write = ""
    /\ raised = None
    /\ pc = "exported"

\* nothing was exported to a bare file name in a format that is not supported
C18_Witness ==
  /\ ExportCalled /\ LastExport.msgs = <<>>
  /\ LastExport.format = "xml" /\ LastExport.path = Some("messages.json")
  /\ pc = "exported"

\* C19: export_messages with messages and a format that is neither json nor
\* csv raises a configuration error (ValueError, as a bad pattern or a bad
\* date string does).
C19_UnsupportedFormatIsConfigurationError ==
  (ExportCalled /\ LastExport.msgs # <<>> /\ ~FormatSupported(LastExport.format)) =>
    /\ pc = "raised"
    /\ raised # None
    /\ raised[1].type = "ValueError"

\* C20: a failure of os.makedirs never fails the export; a failure to open or
\* write the file does: a permission denial as PermissionError, any other
\* failure as IOError; with a supported format nothing else fails it.
C20_OnlyWriteFailureFailsExport ==
  (ExportCalled /\ LastExport.msgs # <<>>) =>
    /\ (LastExport.write = "ok" => raised = None /\ pc = "exported")
    /\ (LastExport.write = "PermissionError" => raised = Some(PermissionDeniedError))
    /\ (LastExport.write \in {"OSError", "UnicodeEncodeError"} =>
          raised # None /\ raised[1].type = "IOError")
    /\ (FormatSupported(LastExport.format) /\ raised # None =>
          LastExport.write \notin {"", "ok"})

\* os.makedirs failed, the file was written, the export returned
C20_Witness ==
  /\ ExportCalled /\ LastExport.msgs # <<>>
  /\ LastExport.path = Some("out/messages.json")
  /\ LastExport.mkdir = "OSError" /\ LastExport.write = "ok"
  /\ raised = None /\ pc = "exported"

(* ------------------------------------------------ the fetch, continued *)
\* the i-th request was answered with data (_make_request returned)
Answered(i) == i \in DOMAIN respLog /\ MakeRequestStep(respLog[i]).t = "return"

\* messages received before the i-th request was sent
RECURSIVE ReceivedBefore(_)
ReceivedBefore(i) ==
  IF i <= 1 THEN 0
  ELSE ReceivedBefore(i - 1) + (IF Answered(i - 1) THEN respLog[i - 1].n ELSE 0)

\* C21: with a positive limit L every history request asks for
\* min(1000, L - messages received so far), a value from 1 to 1000; with no
\* limit every history request asks for 1000.
C21_PageSizeParameter ==
  \A i \in HistoryRequests :
    /\ (PositiveLimit =>
          /\ reqLog[i].limit = Some(Min(1000, args.limit[1] - ReceivedBefore(i)))
          /\ reqLog[i].limit[1] >= 1 /\ reqLog[i].limit[1] <= 1000)
    /\ (args.limit = None => reqLog[i].limit = Some(1000))

\* with a limit of 1001 the first request asked for 1000 and, two messages
\* later, the next one for 999
C21_Witness ==
  /\ args.limit = Some(1001)
  /\ \E i, j \in HistoryRequests :
       /\ i < j
       /\ reqLog[i].limit = Some(1000)
       /\ reqLog[j].limit = Some(999)

\* the states of the client's state machine
Authenticating == pc = "request" /\ req.endpoint = "auth.test"
FetchingPage == pc = "request" /\ req.endpoint = "conversations.history"
RateLimited == pc = "sleep"

\* C22 as claimed: RATE_LIMITED is entered only from FETCHING_PAGE, never
\* from AUTHENTICATING; its only successor is FETCHING_PAGE with the same
\* request; FETCHING_PAGE is reached only by an authenticated client.
C22_RateLimitedOnlyWhileFetching ==
  /\ [][~RateLimited /\ RateLimited' => FetchingPage]_vars
  /\ [][RateLimited /\ ~RateLimited' => FetchingPage' /\ req' = req]_vars
  /\ [][FetchingPage' => constructed']_vars

\* C22 as amended: RATE_LIMITED is entered only from a pending request,
\* AUTHENTICATING or FETCHING_PAGE, on a 429 answer; it is left only by sending
\* the same request again (back to the state it was entered from) or by an
\* interrupt that ends the run; FETCHING_PAGE is reached only by an
\* authenticated client.
C22_RateLimitedFromEitherRequest ==
  /\ [][~RateLimited /\ RateLimited' =>
          /\ Authenticating \/ FetchingPage
          /\ lastResp'.status = 429
          /\ req' = req]_vars
  /\ [][RateLimited /\ ~RateLimited' =>
          \/ pc' = "request" /\ req' = req /\ reqLog' = Append(reqLog, req)
          \/ raised' = Some(KeyboardInterrupt) /\ pc' \in {"raised", "exit"}]_vars
  /\ [][FetchingPage' => constructed']_vars

\* auth.test was rate limited and sent again, and the client went on to fetch
C22_Witness ==
  /\ FetchingPage
  /\ \E i \in DOMAIN respLog :
       /\ reqLog[i].endpoint = "auth.test" /\ respLog[i].status = 429
       /\ reqLog[i + 1] = reqLog[i]

\* get_channel_messages is over: it returned or raised
FetchEnded == returned # None \/ raised # None

\* the positive limit was reached (a negative one is reached by any count)
LimitReached == TruthyInt(args.limit) /\ Len(delivered) >= args.limit[1]

\* C23: when the server rate-limits each request only finitely often and in
\* the end gives a response that is not a page with a non-empty cursor (or the
\* limit is reached), get_channel_messages ends; and it does not return while
\* every page carries a non-empty cursor and the limit is not reached, however
\* empty the pages are.
C23_FetchEndsOnlyWithTheCursor ==
  /\ (InHistoryRequest ~> FetchEnded)
  /\ [](returned # None => ~TruthyStr(lastPageCursor) \/ LimitReached)
  /\ [](pages > 0 /\ TruthyStr(lastPageCursor) /\ ~LimitReached /\ raised = None
        => InHistoryRequest)

\* after a 429 and an empty page that carried a cursor the fetch went on and
\* returned at the page without one
C23_Witness ==
  /\ returned # None
  /\ History429 # {}
  /\ \E i \in HistoryRequests \cap DOMAIN respLog :
       Answered(i) /\ respLog[i].n = 0 /\ TruthyStr(respLog[i].next_cursor)
  /\ ~TruthyStr(lastPageCursor)

\* C24: nothing is salvaged: when a history request fails or is interrupted
\* after one or more pages were received, get_channel_messages returns
\* nothing, and the command-line run neither exports nor previews anything
\* and exits with code 1.
C24_NoPartialResult ==
  (mode = "cli" /\ pages >= 1 /\ returned = None /\ ~InHistoryRequest) =>
    /\ raised # None
    /\ pc = "exit" /\ exitCode = Some(1)
    /\ outLog = <<>>
    /\ filtered = None

\* Ctrl-C arrived during the request for the second page, with messages of
\* the first page in hand
C24_Witness ==
  /\ mode = "cli" /\ pages >= 1 /\ messages # <<>>
  /\ lastResp.kind = "KeyboardInterrupt"
  /\ raised = Some(KeyboardInterrupt)
  /\ returned = None /\ outLog = <<>> /\ exitCode = Some(1)

\* a filter flag was given on the command line
FilterFlagGiven ==
  \/ TruthyStr(args.start_time) \/ TruthyStr(args.end_time)
  \/ TruthyStr(args.regex)
  \/ args.users # None /\ args.users[1] # <<>>

\* C25: in a command-line run whose fetch returned at least one message the
\* order is fetch, filter, output, with exactly one output action: the export
\* of the filtered messages to the given path in the given format when
\* --output was given, the preview of them otherwise; the messages are filtered
\* only when a filter flag was given.
C25_OneOutputAfterFetchAndFilter ==
  /\ (mode = "cli" /\ returned = None => outLog = <<>> /\ filtered = None)
  /\ (mode = "cli" /\ returned # None /\ returned[1] # <<>> /\ pc = "exit" =>
        /\ filtered # None
        /\ filtered[1] = (IF FilterFlagGiven
                          THEN filter_messages(returned[1], filters)
                          ELSE returned[1])
        /\ (~FilterFlagGiven => filters = <<>>)
        /\ Len(outLog) = 1
        /\ outLog[1].msgs = filtered[1]
        /\ IF args.output # None
           THEN /\ outLog[1].op = "export"
                /\ outLog[1].path = args.output
                /\ outLog[1].format = args.format
           ELSE outLog[1].op = "preview")

\* C26: the first history request of a fetch carries no cursor; every later
\* one carries the next_cursor of the successful response just before it, or,
\* when it is the retry of a rate-limited attempt, the cursor of that attempt;
\* no page is asked for twice with success.
C26_CursorChain ==
  /\ \A i \in HistoryRequests :
       IF i - 1 \notin HistoryRequests
       THEN reqLog[i].cursor = None
       ELSE IF respLog[i - 1].status = 429
       THEN reqLog[i].cursor = reqLog[i - 1].cursor
       ELSE /\ Answered(i - 1)
            /\ TruthyStr(respLog[i - 1].next_cursor)
            /\ reqLog[i].cursor = respLog[i - 1].next_cursor
  /\ \A i, j \in HistoryRequests :
       i < j /\ Answered(i) /\ Answered(j) => reqLog[i].cursor # reqLog[j].cursor

\* the request for the second page was rate limited and sent again with the
\* cursor of the first page, and answered
C26_Witness ==
  \E i \in HistoryRequests \cap DOMAIN respLog :
    /\ i + 1 \in DOMAIN respLog
    /\ reqLog[i].cursor = Some(Token(1))
    /\ respLog[i].status = 429
    /\ reqLog[i + 1].cursor = Some(Token(1))
    /\ Answered(i + 1)

\* C27: a limit of 0 is no limit: every history request asks for 1000, nothing
\* is truncated, and the fetch returns every message of every page, ending at
\* the first page whose cursor is absent or empty.
C27_ZeroLimitIsNoLimit ==
  args.limit = Some(0) =>
    /\ \A i \in HistoryRequests : reqLog[i].limit = Some(1000)
    /\ Len(messages) = Len(delivered)
    /\ (pages > 0 /\ raised = None =>
          (InHistoryRequest <=> TruthyStr(lastPageCursor)))
    /\ (returned # None =>
          /\ ~TruthyStr(lastPageCursor)
          /\ returned[1] = FirstMessages(Len(delivered)))

\* two pages with three or more messages were returned whole under limit 0
C27_Witness ==
  /\ args.limit = Some(0)
  /\ returned # None
  /\ pages >= 2
  /\ Len(returned[1]) >= 3
  /\ Len(returned[1]) = Len(delivered)

NegativeLimit == args.limit # None /\ args.limit[1] < 0

\* what a negative limit L leaves of the first page: all but its last |L|
\* messages, nothing when it has at most |L|
FirstPageCut ==
  FirstMessages(IF Len(delivered) + args.limit[1] > 0
                THEN Len(delivered) + args.limit[1] ELSE 0)

\* every history request asked for L messages without a cursor; the fetch
\* ended at the first page, cut, whatever cursor the page carried
NegativeLimitCutsFirstPage ==
  /\ \A i \in HistoryRequests :
       reqLog[i].limit = args.limit /\ reqLog[i].cursor = None
  /\ pages <= 1
  /\ (pages = 1 =>
        /\ returned = Some(FirstPageCut)
        /\ ~InHistoryRequest
        /\ Len(reqLog) = Len(respLog))
  /\ (returned # None => pages = 1)

\* C28 as claimed: with a negative limit L get_channel_messages sends exactly
\* one history request, asking for L messages, and returns the first page
\* without its last |L| messages (nothing when the page has at most |L|),
\* ignoring the cursor.
C28_NegativeLimitOneRequest ==
  NegativeLimit =>
    /\ NegativeLimitCutsFirstPage
    /\ Cardinality(HistoryRequests) <= 1
    /\ (returned # None => Cardinality(HistoryRequests) = 1)

\* C28 as amended: with a negative limit L every history request is the same
\* first-page request, asking for L messages without a cursor, sent again only
\* after a 429; the fetch ends at the first successful page and returns it
\* without its last |L| messages (nothing when the page has at most |L|),
\* ignoring the cursor.
C28_NegativeLimitOnePage ==
  NegativeLimit =>
    /\ NegativeLimitCutsFirstPage
    /\ \A i \in HistoryRequests :
         i - 1 \in HistoryRequests =>
           respLog[i - 1].status = 429 /\ reqLog[i] = reqLog[i - 1]
    /\ (returned # None =>
          Cardinality(HistoryRequests) = 1 + Cardinality(History429))

\* limit -1: a first page of two messages with a cursor came back as one message
C28_Witness ==
  /\ args.limit = Some(-1)
  /\ Len(delivered) = 2
  /\ TruthyStr(lastPageCursor)
  /\ returned = Some(<<SlackMessage(1, args.channel)>>)

\* a 429 response whose Retry-After header is there but is not an integer
NonIntegerRetryAfter(resp) ==
  /\ resp.status = 429
  /\ resp.retry_after # None
  /\ ParseInt(resp.retry_after[1]) = None

\* 429 responses that were waited on: header absent, or a non-negative integer
Waited429 ==
  { i \in DOMAIN respLog :
      /\ respLog[i].status = 429
      /\ \/ respLog[i].retry_after = None
         \/ /\ ParseInt(respLog[i].retry_after[1]) # None
            /\ ParseInt(respLog[i].retry_after[1])[1] >= 0 }

\* C29: a 429 response with a Retry-After header that is not an integer ends
\* the request at once with a ValueError, which the command-line program
\* reports as a configuration error: no wait for it and no retry.
C29_NonIntegerRetryAfterIsValueError ==
  (respLog # <<>> /\ NonIntegerRetryAfter(lastResp)) =>
    /\ raised # None /\ raised[1].type = "ValueError"
    /\ pc = "exit" /\ exitCode = Some(1)
    /\ report = "Configuration Error"
    /\ Len(reqLog) = Len(respLog)
    /\ Len(sleepLog) = Cardinality(Waited429)

\* after one page and one 429 that was waited on, "Retry-After: abc" ended
\* the fetch
C29_Witness ==
  /\ respLog # <<>> /\ NonIntegerRetryAfter(lastResp)
  /\ pages >= 1
  /\ Len(sleepLog) = 1
  /\ raised = Some(IntParseError)
  /\ report = "Configuration Error"

\* an HTTP response with a 4xx or 5xx status other than 429
ErrorStatus(resp) ==
  resp.kind = "response" /\ resp.status >= 400 /\ resp.status # 429

\* C30: a 4xx or 5xx status other than 429 on a history request is raised as
\* the network error whatever the body says, with no wait and no retry; only
\* a 429 is ever waited on and retried.
C30_ErrorStatusIsNetworkError ==
  /\ (req.endpoint = "conversations.history" /\ ErrorStatus(lastResp) =>
        /\ raised = Some(NetworkError)
        /\ returned = None
        /\ pc \in {"raised", "exit"}
        /\ Len(reqLog) = Len(respLog)
        /\ Len(sleepLog) = Cardinality(Waited429))
  /\ Len(sleepLog) <= n429
  /\ \A i \in DOMAIN respLog :
       i + 1 \in DOMAIN reqLog /\ reqLog[i + 1] = reqLog[i] => respLog[i].status = 429

\* a 404 whose body says channel_not_found, on the second page
C30_Witness ==
  /\ req.endpoint = "conversations.history"
  /\ lastResp.status = 404 /\ lastResp.error = Some("channel_not_found")
  /\ pages >= 1
  /\ raised = Some(NetworkError)

====
